---- MODULE Spec2Model ----
(***************************************************************************)
(* A model of mesh::internal::BitmapBase (src/src/bitmap.h): the word      *)
(* array, the atomic and the relaxed bit operations, the first-empty scan, *)
(* the lowest-set-bit lookup and the set-bit iterator.                     *)
(*                                                                         *)
(* A word (size_t, 64 bits) is represented by the set of its set bit       *)
(* positions, a subset of 0..63: `old | mask` is union with {pos},         *)
(* `old & ~mask` is removal of pos, `~w` is the complement in 0..63 and    *)
(* __builtin_ffsll(w) - 1 is the least element.                            *)
(***************************************************************************)
EXTENDS Integers, Sequences, FiniteSets, TLC

VARIABLES
  bitCount,   \* _bitCount
  bitarray,   \* _bitarray: word index -> set of set positions
  strategy,   \* the template's setAt/unsetAt pair: "atomic" or "relaxed"
  last,       \* the call that returned last (sequential use): op, arg, results, array before
  nops,       \* number of mutating calls made so far (sequential use)
  fills,      \* consecutive setFirstEmpty(0) calls since construction of an all-clear bitmap, -1 otherwise
  iter,       \* a BitmapIter over this bitmap: [active, i]
  visited,    \* the values *it took while it != end() in the running traversal
  aborted,    \* abort() was called
  oob,        \* a word outside the allocated array was read or written
  th,         \* the threads of the concurrent use: position and locals of each
  str,        \* the string the bitmap was constructed from, until a call changes the
              \* array (empty: constructed from a bit count, or changed since)
  objs,       \* the BitmapBase objects of the ownership model: state, _bitCount, _bitarray
  heap        \* the arrays internal::Heap() handed out: words, number of times freed

vars == <<bitCount, bitarray, strategy, last, nops, fills, iter, visited, aborted, oob, th,
          str, objs, heap>>

----------------------------------------------------------------------------
\* Program constants

WORD_BITS == 64

WORD_BYTES == 8

\* Bounds of the model

\* mutating calls per sequential run
MaxOps == 2

\* threads of the concurrent use
NThreads == 2

\* the bit counts bitmaps are constructed with: below, at and above one word
BitCounts == {1, 3, 64, 65, 128}

\* the indices calls are made with: the ends of the words and of the bitmap
Probe(n) == {i \in {0, 1, 63, 64, n - 1} : i < n}

\* what a call that returns no index leaves in the result
NoIndex == 0 - 1

\* the strings of every content up to this length are constructed from
MaxStrLen == 5

\* BitmapBase objects of the ownership model
MaxObjs == 3


----------------------------------------------------------------------------
\* Words

\* ~0UL
FullWord == 0 .. (WORD_BITS - 1)

\* ~w
Complement(w) == FullWord \ w

\* a variant that stores the mask alone
SetMaskOnly(old, pos) == {pos}

\* oldValue | mask, with mask = getMask(pos)
SetMask(old, pos) == old \cup {pos}

\* oldValue & ~mask
ClearMask(old, pos) == old \ {pos}

\* !(oldValue & mask)
WasClear(old, pos) == pos \notin old

\* a variant that masks one bit too many: w & ~((1UL << (off + 1)) - 1)
MaskBelowOffByOne(w, off) == {p \in w : p > off}

\* w & ~((1UL << off) - 1)
MaskBelow(w, off) == {p \in w : p >= off}

\* __builtin_ffsll(w) - 1, for w # 0
Ffs(w) == CHOOSE p \in w : \A q \in w : p <= q

\* __builtin_popcountl(w)
Popcount(w) == Cardinality(w)

----------------------------------------------------------------------------
\* Layout

byteCount(n) == (WORD_BITS * ((n + WORD_BITS - 1) \div WORD_BITS)) \div 8

\* the words malloc(byteCount()) holds
AllocWords(n) == byteCount(n) \div WORD_BYTES

\* computeItemPosition
ItemOf(index) == index \div WORD_BITS

PositionOf(index) == index % WORD_BITS

\* the contents possible for a word outside the array
OOBWords == {FullWord, {}}

\* the values a read of word i can yield
ReadWord(b, n, i) == IF i < AllocWords(n) THEN {b[i]} ELSE OOBWords

\* a variant of clear() that stops one word early; the word it leaves is as
\* malloc handed it out, here all ones
ClearedArrayButLast(n) ==
  [i \in 0 .. (AllocWords(n) - 1) |-> IF i < AllocWords(n) - 1 THEN {} ELSE FullWord]

\* clear(): every word of the array is 0
ClearedArray(n) == [i \in 0 .. (AllocWords(n) - 1) |-> {}]

isSet(b, index) == PositionOf(index) \in b[ItemOf(index)]

\* the indices below n whose bit is set
SetBits(b, n) == {i \in 0 .. (n - 1) : isSet(b, i)}

\* to_string(bitCount): a string of '0' with '1' at the indices isSet reports;
\* the default bitCount of -1 stands for _bitCount
to_string(b, n, limit) ==
  LET m == IF limit = 0 - 1 THEN n ELSE limit
  IN [i \in 1 .. m |-> IF isSet(b, i - 1) THEN "1" ELSE "0"]

\* the loop of inUseCount: popcounts of the words from i up to wordCount
RECURSIVE CountFrom(_, _, _)
CountFrom(b, wordCount, i) ==
  IF i >= wordCount THEN 0 ELSE Popcount(b[i]) + CountFrom(b, wordCount, i + 1)

\* a variant of inUseCount whose loop begins at word 1
inUseCountFromOne(b, n) == CountFrom(b, byteCount(n) \div 8, 1)

inUseCount(b, n) == CountFrom(b, byteCount(n) \div 8, 0)

----------------------------------------------------------------------------
\* The bit-operation strategies. Each returns the array after the call and
\* the call's result.

\* a variant of relaxedSet that returns (oldValue & mask) != 0
relaxedSetWasSet(b, item, position) ==
  LET oldValue == b[item]
  IN [bits |-> [b EXCEPT ![item] = SetMask(oldValue, position)],
      ret |-> ~WasClear(oldValue, position)]

relaxedSet(b, item, position) ==
  LET oldValue == b[item]
  IN [bits |-> [b EXCEPT ![item] = SetMask(oldValue, position)],
      ret |-> WasClear(oldValue, position)]

\* a variant of relaxedUnset that returns (oldValue & mask) != 0
relaxedUnsetWasSet(b, item, position) ==
  LET oldValue == b[item]
  IN [bits |-> [b EXCEPT ![item] = ClearMask(oldValue, position)],
      ret |-> ~WasClear(oldValue, position)]

relaxedUnset(b, item, position) ==
  LET oldValue == b[item]
  IN [bits |-> [b EXCEPT ![item] = ClearMask(oldValue, position)],
      ret |-> WasClear(oldValue, position)]

\* a variant that stores without comparing
CasAlways(cur, expected) == TRUE

\* atomic_compare_exchange_weak(&bits[item], &oldValue, new): succeeds only if
\* the word still holds oldValue (a spurious failure, CasSpurious below,
\* reloads the same value and changes nothing)
CasOk(cur, expected) == cur = expected

\* atomicSet run with no other thread between its load and its compare-exchange:
\* the exchange finds the word it loaded
atomicSet(b, item, position) ==
  LET oldValue == b[item]
  IN [bits |-> [b EXCEPT ![item] =
                  IF CasOk(@, oldValue) THEN SetMask(oldValue, position) ELSE @],
      ret |-> WasClear(oldValue, position)]

atomicUnset(b, item, position) ==
  LET oldValue == b[item]
  IN [bits |-> [b EXCEPT ![item] =
                  IF CasOk(@, oldValue) THEN ClearMask(oldValue, position) ELSE @],
      ret |-> WasClear(oldValue, position)]

setAt(st, b, item, position) ==
  IF st = "atomic" THEN atomicSet(b, item, position) ELSE relaxedSet(b, item, position)

unsetAt(st, b, item, position) ==
  IF st = "atomic" THEN atomicUnset(b, item, position) ELSE relaxedUnset(b, item, position)

tryToSet(st, b, index) == setAt(st, b, ItemOf(index), PositionOf(index))

unset(st, b, index) == unsetAt(st, b, ItemOf(index), PositionOf(index))

\* the loop of BitmapBase(str) over the characters i in [lo, hi), in ascending
\* order: tryToSet(i) where str[i] is '1' (the characters of a sequence are
\* numbered from 1). The range is walked lower half first, and the array
\* after the lower half is computed before the upper half begins: hence the
\* comparison, whose two branches are the same walk.
RECURSIVE SetFromString(_, _, _, _, _)
SetFromString(st, b, s, lo, hi) ==
  IF hi <= lo THEN b
  ELSE IF hi = lo + 1
    THEN IF s[lo + 1] = "1" THEN tryToSet(st, b, lo).bits ELSE b
    ELSE LET mid == (lo + hi) \div 2
             lower == SetFromString(st, b, s, lo, mid)
         IN IF lower = b THEN SetFromString(st, b, s, mid, hi)
                         ELSE SetFromString(st, lower, s, mid, hi)

\* a variant of BitmapBase(str) whose loop begins at character 1
BitmapOfStringFromOne(st, s) == SetFromString(st, ClearedArray(Len(s)), s, 1, Len(s))

\* BitmapBase(str): _bitCount is the length, the array is cleared, then the loop
BitmapOfString(st, s) == SetFromString(st, ClearedArray(Len(s)), s, 0, Len(s))

----------------------------------------------------------------------------
\* setFirstEmpty

\* `const size_t words = byteCount();`: the loop's bound
SfeWords(n) == byteCount(n)

\* One turn of the loop, at word i read as w with the outer `off`: the turn
\* returns WORD_BITS * i + off' (done), or continues with word i + 1 and the
\* `off` given. setAt on a word outside the array reports either result. After
\* a failed setAt the inner `off` (which shadows the outer one) is incremented
\* and dropped, and `continue` keeps the outer `off` as it was.
\* a variant of the loop's turn that does not reset `off` when it skips a word
SfeTurnKeepsOff(st, b, n, i, off, w) ==
  LET unsetBits == MaskBelow(Complement(w), off)
      Claim(p) ==
        IF i < AllocWords(n) THEN {setAt(st, b, i, p)}
        ELSE {[bits |-> b, ret |-> ok] : ok \in BOOLEAN}
  IN IF w = FullWord \/ unsetBits = {}
     THEN {[done |-> FALSE, bits |-> b, ret |-> NoIndex, off |-> off]}
     ELSE {[done |-> r.ret, bits |-> r.bits,
            ret |-> IF r.ret THEN WORD_BITS * i + Ffs(unsetBits) ELSE NoIndex,
            off |-> off] : r \in Claim(Ffs(unsetBits))}

SfeTurn(st, b, n, i, off, w) ==
  LET unsetBits == MaskBelow(Complement(w), off)
      Claim(p) ==
        IF i < AllocWords(n) THEN {setAt(st, b, i, p)}
        ELSE {[bits |-> b, ret |-> ok] : ok \in BOOLEAN}
  IN IF w = FullWord \/ unsetBits = {}
     THEN {[done |-> FALSE, bits |-> b, ret |-> NoIndex, off |-> 0]}
     ELSE {[done |-> r.ret, bits |-> r.bits,
            ret |-> IF r.ret THEN WORD_BITS * i + Ffs(unsetBits) ELSE NoIndex,
            off |-> off] : r \in Claim(Ffs(unsetBits))}

\* The loop from word i with the outer `off`, and the abort after it; o: a
\* word outside the array was touched. The set of outcomes: a word outside the
\* array reads as any value.
RECURSIVE SfeScan(_, _, _, _, _, _)
SfeScan(st, b, n, i, off, o) ==
  IF i >= SfeWords(n)
  THEN {[bits |-> b, ret |-> NoIndex, aborted |-> TRUE, oob |-> o]}
  ELSE LET o2 == o \/ i >= AllocWords(n)
           turns == UNION {SfeTurn(st, b, n, i, off, w) : w \in ReadWord(b, n, i)}
       IN {[bits |-> u.bits, ret |-> u.ret, aborted |-> FALSE, oob |-> o2] :
             u \in {v \in turns : v.done}}
          \cup UNION {SfeScan(st, u.bits, n, i + 1, u.off, o2) :
                        u \in {v \in turns : ~v.done}}

setFirstEmpty(st, b, n, startingAt) ==
  SfeScan(st, b, n, ItemOf(startingAt), PositionOf(startingAt), FALSE)

----------------------------------------------------------------------------
\* lowestSetBitAt

RECURSIVE LsbScan(_, _, _, _, _)
LsbScan(b, n, i, startOff, o) ==
  IF i >= byteCount(n)
  THEN {[ret |-> n, oob |-> o]}
  ELSE LET o2 == o \/ i >= AllocWords(n)
           Step(w) ==
             LET bits == MaskBelow(w, startOff)
             IN IF bits = {}
                THEN LsbScan(b, n, i + 1, 0, o2)
                ELSE LET bit == WORD_BITS * i + Ffs(bits)
                     IN {[ret |-> IF bit < n THEN bit ELSE n, oob |-> o2]}
       IN UNION {Step(w) : w \in ReadWord(b, n, i)}

lowestSetBitAt(b, n, startingAt) ==
  LsbScan(b, n, ItemOf(startingAt), PositionOf(startingAt), FALSE)

----------------------------------------------------------------------------
\* BitmapIter

\* end(): iterator(*this, bitCount())
IterEnd(n) == n

\* begin(): iterator(*this, lowestSetBitAt(0))
IterBeginAt(b, n) == lowestSetBitAt(b, n, 0)

\* a variant of operator++ that looks up from _i instead of _i + 1
IterIncrNoAdvance(b, n, i) ==
  IF i + 1 >= n THEN {[ret |-> n, oob |-> FALSE]} ELSE lowestSetBitAt(b, n, i)

\* operator++
IterIncrAt(b, n, i) ==
  IF i + 1 >= n THEN {[ret |-> n, oob |-> FALSE]} ELSE lowestSetBitAt(b, n, i + 1)

----------------------------------------------------------------------------
\* Sequential use: one caller, one call at a time, either strategy.

Threads == 1 .. NThreads

NoCall == [op |-> "none", arg |-> 0]

IdleThread ==
  [pc |-> "idle", call |-> NoCall, item |-> 0, position |-> 0, oldValue |-> {},
   i |-> 0, off |-> 0, retB |-> FALSE, retN |-> NoIndex, fails |-> 0, spurious |-> 0,
   free |-> {}]

NoIter == [active |-> FALSE, i |-> 0]

\* the contents a bitmap is constructed with: all clear (BitmapBase(size_t)), or
\* from a string (BitmapBase(str)) of zeros with ones at some of the probed
\* indices, or of ones with zeros at some of them
InitOnes(n) == SUBSET Probe(n) \cup {(0 .. (n - 1)) \ F : F \in SUBSET Probe(n)}

\* the string of length n with '1' at the indices in ones
StringOf(n, ones) == [i \in 1 .. n |-> IF (i - 1) \in ones THEN "1" ELSE "0"]

\* no object constructed, nothing allocated
NoObjs ==
  [o \in 1 .. MaxObjs |-> [state |-> "unborn", by |-> "none", bitCount |-> 0, bitarray |-> 0]]

Returned(op, arg, rb, rn) ==
  [op |-> op, arg |-> arg, retB |-> rb, retN |-> rn, retS |-> << >>,
   pre |-> bitarray, n |-> bitCount]

\* before any call
NoneReturned == Returned("none", 0, FALSE, NoIndex)

Init ==
  /\ bitCount \in BitCounts
  /\ strategy \in {"relaxed", "atomic"}
  /\ \E ones \in InitOnes(bitCount) :
       /\ str = IF ones = {} THEN << >> ELSE StringOf(bitCount, ones)
       /\ bitarray = IF ones = {} THEN ClearedArray(bitCount)
                                  ELSE BitmapOfString(strategy, str)
       /\ fills = IF ones = {} THEN 0 ELSE -1
  /\ objs = NoObjs /\ heap = << >>
  /\ last = NoneReturned
  /\ nops = 0
  /\ iter = NoIter
  /\ visited = << >>
  /\ aborted = FALSE
  /\ oob = FALSE
  /\ th = [t \in Threads |-> IdleThread]

TryToSet(index) ==
  /\ ~aborted /\ nops < MaxOps
  /\ LET r == tryToSet(strategy, bitarray, index)
     IN /\ bitarray' = r.bits
        /\ last' = Returned("tryToSet", index, r.ret, NoIndex)
  /\ nops' = nops + 1
  /\ fills' = -1
  /\ iter' = NoIter /\ visited' = << >>
  /\ str' = << >>
  /\ UNCHANGED <<objs, heap, bitCount, strategy, aborted, oob, th>>

Unset(index) ==
  /\ ~aborted /\ nops < MaxOps
  /\ LET r == unset(strategy, bitarray, index)
     IN /\ bitarray' = r.bits
        /\ last' = Returned("unset", index, r.ret, NoIndex)
  /\ nops' = nops + 1
  /\ fills' = -1
  /\ iter' = NoIter /\ visited' = << >>
  /\ str' = << >>
  /\ UNCHANGED <<objs, heap, bitCount, strategy, aborted, oob, th>>

IsSet(index) ==
  /\ ~aborted
  /\ last' = Returned("isSet", index, isSet(bitarray, index), NoIndex)
  /\ iter' = NoIter /\ visited' = << >>
  /\ UNCHANGED <<str, objs, heap, bitCount, bitarray, strategy, nops, fills, aborted, oob, th>>

SetFirstEmpty(startingAt) ==
  /\ ~aborted /\ nops < MaxOps
  /\ \E out \in setFirstEmpty(strategy, bitarray, bitCount, startingAt) :
       /\ bitarray' = out.bits
       /\ aborted' = out.aborted
       /\ oob' = (oob \/ out.oob)
       /\ last' = Returned("setFirstEmpty", startingAt, FALSE, out.ret)
  /\ nops' = nops + 1
  /\ fills' = IF fills >= 0 /\ startingAt = 0 THEN fills + 1 ELSE -1
  /\ iter' = NoIter /\ visited' = << >>
  /\ str' = << >>
  /\ UNCHANGED <<objs, heap, bitCount, strategy, th>>

LowestSetBitAt(startingAt) ==
  /\ ~aborted
  /\ \E out \in lowestSetBitAt(bitarray, bitCount, startingAt) :
       /\ oob' = (oob \/ out.oob)
       /\ last' = Returned("lowestSetBitAt", startingAt, FALSE, out.ret)
  /\ iter' = NoIter /\ visited' = << >>
  /\ UNCHANGED <<str, objs, heap, bitCount, bitarray, strategy, nops, fills, aborted, th>>

Clear ==
  /\ ~aborted /\ nops < MaxOps
  /\ bitarray' = ClearedArray(bitCount)
  /\ last' = Returned("clear", 0, FALSE, NoIndex)
  /\ nops' = nops + 1
  /\ fills' = -1
  /\ iter' = NoIter /\ visited' = << >>
  /\ str' = << >>
  /\ UNCHANGED <<objs, heap, bitCount, strategy, aborted, oob, th>>

InUseCount ==
  /\ ~aborted
  /\ last' = Returned("inUseCount", 0, FALSE, inUseCount(bitarray, bitCount))
  /\ iter' = NoIter /\ visited' = << >>
  /\ UNCHANGED <<str, objs, heap, bitCount, bitarray, strategy, nops, fills, aborted, oob, th>>

\* to_string(limit), with limit = -1 for the default argument
ToStr(limit) ==
  /\ ~aborted
  /\ last' = [Returned("to_string", limit, FALSE, NoIndex)
                EXCEPT !.retS = to_string(bitarray, bitCount, limit)]
  /\ iter' = NoIter /\ visited' = << >>
  /\ UNCHANGED <<str, objs, heap, bitCount, bitarray, strategy, nops, fills, aborted, oob, th>>

\* it = begin(); the traversal the model follows runs with no other call in between
IterBegin ==
  /\ ~aborted
  /\ \E out \in IterBeginAt(bitarray, bitCount) :
       /\ oob' = (oob \/ out.oob)
       /\ iter' = [active |-> TRUE, i |-> out.ret]
       /\ visited' = IF out.ret # IterEnd(bitCount) THEN <<out.ret>> ELSE << >>
       /\ last' = Returned("begin", 0, FALSE, out.ret)
  /\ UNCHANGED <<str, objs, heap, bitCount, bitarray, strategy, nops, fills, aborted, th>>

\* ++it, while it != end()
IterIncr ==
  /\ ~aborted
  /\ iter.active /\ iter.i # IterEnd(bitCount)
  /\ \E out \in IterIncrAt(bitarray, bitCount, iter.i) :
       /\ oob' = (oob \/ out.oob)
       /\ iter' = [active |-> TRUE, i |-> out.ret]
       /\ visited' = IF out.ret # IterEnd(bitCount) THEN Append(visited, out.ret) ELSE visited
       /\ last' = Returned("++", iter.i, FALSE, out.ret)
  /\ UNCHANGED <<str, objs, heap, bitCount, bitarray, strategy, nops, fills, aborted, th>>

Next ==
  \/ \E index \in Probe(bitCount) : TryToSet(index)
  \/ \E index \in Probe(bitCount) : Unset(index)
  \/ \E index \in Probe(bitCount) : IsSet(index)
  \/ \E startingAt \in Probe(bitCount) : SetFirstEmpty(startingAt)
  \/ \E startingAt \in Probe(bitCount) : LowestSetBitAt(startingAt)
  \/ Clear
  \/ InUseCount
  \/ ToStr(0 - 1)

Spec == Init /\ [][Next]_vars

\* Construction from a string and conversion back to one
ShortStrings == UNION {[1 .. k -> {"0", "1"}] : k \in 0 .. MaxStrLen}

InitStrings ==
  ShortStrings \cup UNION {{StringOf(n, ones) : ones \in InitOnes(n)} : n \in BitCounts}

InitString ==
  /\ str \in InitStrings
  /\ strategy \in {"relaxed", "atomic"}
  /\ bitCount = Len(str)
  /\ bitarray = BitmapOfString(strategy, str)
  /\ fills = -1
  /\ objs = NoObjs /\ heap = << >>
  /\ last = NoneReturned
  /\ nops = 0
  /\ iter = NoIter
  /\ visited = << >>
  /\ aborted = FALSE
  /\ oob = FALSE
  /\ th = [t \in Threads |-> IdleThread]

\* the limits to_string is called with: the default, none, a part, all
Limits(n) == {0 - 1} \cup {m \in {0, 1, 64, n} : m <= n}

NextString ==
  \/ \E limit \in Limits(bitCount) : ToStr(limit)
  \/ \E index \in Probe(bitCount) : index >= 0 /\ TryToSet(index)

SpecString == InitString /\ [][NextString]_vars

\* A traversal of the bitmap by its iterator, between mutating calls
NextIter ==
  \/ \E index \in Probe(bitCount) : TryToSet(index)
  \/ \E index \in Probe(bitCount) : Unset(index)
  \/ IterBegin
  \/ IterIncr

SpecIter == Init /\ [][NextIter]_vars

\* Every operation, on bitmaps of one word and of two
InitFrame == Init /\ bitCount \in {3, 65}

NextFrame ==
  \/ Next
  \/ IterBegin
  \/ IterIncr

SpecFrame == InitFrame /\ [][NextFrame]_vars

----------------------------------------------------------------------------
\* Ownership of the word array: objects are constructed, move-constructed
\* from one another and destroyed. An object is "unborn" before its
\* constructor ran, "live" until its destructor ran, and each object is
\* destroyed at most once. _bitarray is the number of an array of `heap`, or
\* NullPtr.

NullPtr == 0

Objs == 1 .. MaxObjs

\* the bit counts and strings the objects are constructed from
ObjBitCounts == {1, 65}

ObjStrings == {<<"1">>, <<"0", "1">>}

InitOwn ==
  /\ objs = NoObjs /\ heap = << >>
  /\ bitCount = 1
  /\ strategy = "relaxed"
  /\ str = << >>
  /\ bitarray = ClearedArray(bitCount)
  /\ fills = -1
  /\ last = NoneReturned
  /\ nops = 0
  /\ iter = NoIter
  /\ visited = << >>
  /\ aborted = FALSE
  /\ oob = FALSE
  /\ th = [t \in Threads |-> IdleThread]

\* internal::Heap().malloc(byteCount()), its words then written as `words`
Malloc(words) == Append(heap, [words |-> words, frees |-> 0])

\* BitmapBase(size_t bitCount)
Construct(o, n) ==
  /\ objs[o].state = "unborn"
  /\ heap' = Malloc(ClearedArray(n))
  /\ objs' = [objs EXCEPT ![o] = [state |-> "live", by |-> "count", bitCount |-> n,
                                  bitarray |-> Len(heap) + 1]]
  /\ UNCHANGED <<str, bitCount, bitarray, strategy, last, nops, fills, iter, visited, aborted, oob, th>>

\* BitmapBase(const std::string &str)
ConstructFromString(o, s) ==
  /\ objs[o].state = "unborn"
  /\ heap' = Malloc(BitmapOfString(strategy, s))
  /\ objs' = [objs EXCEPT ![o] = [state |-> "live", by |-> "string", bitCount |-> Len(s),
                                  bitarray |-> Len(heap) + 1]]
  /\ UNCHANGED <<str, bitCount, bitarray, strategy, last, nops, fills, iter, visited, aborted, oob, th>>

\* a variant of the move constructor that leaves rhs._bitarray as it was
MoveConstructKeepsRhs(o, rhs) ==
  /\ objs[o].state = "unborn" /\ objs[rhs].state = "live"
  /\ objs' = [objs EXCEPT ![o] = [state |-> "live", by |-> "move",
                                  bitCount |-> objs[rhs].bitCount,
                                  bitarray |-> objs[rhs].bitarray]]
  /\ UNCHANGED <<str, heap, bitCount, bitarray, strategy, last, nops, fills, iter, visited, aborted, oob, th>>

\* BitmapBase(BitmapBase &&rhs)
MoveConstruct(o, rhs) ==
  /\ objs[o].state = "unborn" /\ objs[rhs].state = "live"
  /\ objs' = [objs EXCEPT ![o] = [state |-> "live", by |-> "move",
                                  bitCount |-> objs[rhs].bitCount,
                                  bitarray |-> objs[rhs].bitarray],
                          ![rhs].bitarray = NullPtr]
  /\ UNCHANGED <<str, heap, bitCount, bitarray, strategy, last, nops, fills, iter, visited, aborted, oob, th>>

\* ~BitmapBase()
Destroy(o) ==
  /\ objs[o].state = "live"
  /\ heap' = IF objs[o].bitarray # NullPtr
               THEN [heap EXCEPT ![objs[o].bitarray].frees = @ + 1]
               ELSE heap
  /\ objs' = [objs EXCEPT ![o].state = "destroyed", ![o].bitarray = NullPtr]
  /\ UNCHANGED <<str, bitCount, bitarray, strategy, last, nops, fills, iter, visited, aborted, oob, th>>

NextOwn ==
  \/ \E o \in Objs, n \in ObjBitCounts : Construct(o, n)
  \/ \E o \in Objs, s \in ObjStrings : ConstructFromString(o, s)
  \/ \E o \in Objs, rhs \in Objs : MoveConstruct(o, rhs)
  \/ \E o \in Objs : Destroy(o)

SpecOwn == InitOwn /\ [][NextOwn]_vars

----------------------------------------------------------------------------
\* Concurrent use under the atomic strategy: each thread makes one call, and
\* the threads interleave at their accesses to the shared words. A call's
\* thread-local steps go with the shared access that follows them.
\* last.pre keeps the array as constructed.

\* the bit counts of the concurrent use: inside one word, one full word, two words
BitCountsAtomic == {3, 64, 65}

\* the indices the threads call with
ProbeAtomic(n) == {0, n - 1}

\* all clear, all ones, or ones with a zero at the last index
InitOnesAtomic(n) == {{}, 0 .. (n - 1), 0 .. (n - 2)}

InitAtomic ==
  /\ bitCount \in BitCountsAtomic
  /\ strategy = "atomic"
  /\ \E ones \in InitOnesAtomic(bitCount) :
       /\ str = IF ones = {} THEN << >> ELSE StringOf(bitCount, ones)
       /\ bitarray = IF ones = {} THEN ClearedArray(bitCount)
                                  ELSE BitmapOfString(strategy, str)
  /\ objs = NoObjs /\ heap = << >>
  /\ fills = -1
  /\ last = NoneReturned
  /\ nops = 0
  /\ iter = NoIter
  /\ visited = << >>
  /\ aborted = FALSE
  /\ oob = FALSE
  /\ th = [t \in Threads |-> IdleThread]

\* threads are interchangeable: they begin their calls in the order of their numbers
MayStart(t) == th[t].pc = "idle" /\ \A u \in Threads : u < t => th[u].pc # "idle"

\* the indices at or after `from` whose bit is clear
ClearFrom(b, n, from) == {j \in from .. (n - 1) : ~isSet(b, j)}

\* every running setFirstEmpty keeps the bits that stayed clear since it began
Shrink(t, b) == [th[t] EXCEPT !.free = @ \ SetBits(b, bitCount)]

\* a variant of tryToSet(index), unset(index) in which oldValue begins as 0
\* instead of the word
StartBitOpNoLoad(t, op, index) ==
  /\ ~aborted /\ MayStart(t)
  /\ th' = [th EXCEPT ![t] =
       [@ EXCEPT !.pc = "cas", !.call = [op |-> op, arg |-> index],
                 !.item = ItemOf(index), !.position = PositionOf(index),
                 !.oldValue = {}]]
  /\ UNCHANGED <<str, objs, heap, bitCount, bitarray, strategy, last, nops, fills, iter, visited, aborted, oob>>

\* tryToSet(index), unset(index): computeItemPosition, then atomicSet's or
\* atomicUnset's load of the word
StartBitOp(t, op, index) ==
  /\ ~aborted /\ MayStart(t)
  /\ th' = [th EXCEPT ![t] =
       [@ EXCEPT !.pc = "cas", !.call = [op |-> op, arg |-> index],
                 !.item = ItemOf(index), !.position = PositionOf(index),
                 !.oldValue = bitarray[ItemOf(index)]]]
  /\ UNCHANGED <<str, objs, heap, bitCount, bitarray, strategy, last, nops, fills, iter, visited, aborted, oob>>

\* setFirstEmpty(startingAt): computeItemPosition(startingAt, startWord, off)
StartSetFirstEmpty(t, startingAt) ==
  /\ ~aborted /\ MayStart(t)
  /\ th' = [th EXCEPT ![t] =
       [@ EXCEPT !.pc = "scan", !.call = [op |-> "setFirstEmpty", arg |-> startingAt],
                 !.i = ItemOf(startingAt), !.off = PositionOf(startingAt),
                 !.free = ClearFrom(bitarray, bitCount, startingAt)]]
  /\ UNCHANGED <<str, objs, heap, bitCount, bitarray, strategy, last, nops, fills, iter, visited, aborted, oob>>

\* the thread once its call has returned: its locals are gone
Return(r, rb, rn) ==
  [IdleThread EXCEPT !.pc = "done", !.call = r.call, !.retB = rb, !.retN = rn,
                     !.fails = r.fails, !.spurious = r.spurious]

\* one turn of setFirstEmpty's loop, at a word of the array, up to the call
\* of setAt
Scan(t) ==
  /\ ~aborted /\ th[t].pc = "scan"
  /\ th[t].i < AllocWords(bitCount)
  /\ LET w == bitarray[th[t].i]
         unsetBits == MaskBelow(Complement(w), th[t].off)
     IN IF w = FullWord \/ unsetBits = {}
        THEN th' = [th EXCEPT ![t] = [@ EXCEPT !.off = 0, !.i = @ + 1]]
        ELSE th' = [th EXCEPT ![t] =
               [@ EXCEPT !.pc = "load", !.item = th[t].i, !.position = Ffs(unsetBits)]]
  /\ UNCHANGED <<str, objs, heap, bitCount, bitarray, strategy, last, nops, fills, iter, visited, aborted, oob>>

\* the rest of setFirstEmpty's loop once i is past the array (i < words still
\* holds, words being byteCount()), and the abort after the loop: these turns
\* touch no word of the bitmap, and are taken as one step
ScanOutside(t) ==
  /\ ~aborted /\ th[t].pc = "scan"
  /\ th[t].i >= AllocWords(bitCount)
  /\ \E out \in SfeScan(strategy, bitarray, bitCount, th[t].i, th[t].off, oob) :
       /\ aborted' = out.aborted
       /\ oob' = out.oob
       /\ th' = [th EXCEPT ![t] =
            IF out.aborted THEN [@ EXCEPT !.pc = "aborted"]
            ELSE Return(@, FALSE, out.ret)]
  /\ UNCHANGED <<str, objs, heap, bitCount, bitarray, strategy, last, nops, fills, iter, visited>>

\* atomicSet's `size_t oldValue = bits[item]`, called from setFirstEmpty
Load(t) ==
  /\ ~aborted /\ th[t].pc = "load"
  /\ th' = [th EXCEPT ![t] = [@ EXCEPT !.pc = "cas", !.oldValue = bitarray[th[t].item]]]
  /\ UNCHANGED <<str, objs, heap, bitCount, bitarray, strategy, last, nops, fills, iter, visited, aborted, oob>>

\* a variant that stores mask, or ~mask, instead of combining it with oldValue
NewValueFromMask(op, oldValue, position) ==
  IF op = "unset" THEN Complement({position}) ELSE {position}

\* the word atomicSet or atomicUnset stores
NewValue(op, oldValue, position) ==
  IF op = "unset" THEN ClearMask(oldValue, position) ELSE SetMask(oldValue, position)

\* the thread after its compare-exchange succeeded: atomicSet/atomicUnset
\* return !(oldValue & mask); setFirstEmpty returns WORD_BITS * i + off when
\* that is true, and otherwise continues with the next word, the outer `off`
\* unchanged
AfterCas(r) ==
  LET ok == WasClear(r.oldValue, r.position)
  IN IF r.call.op # "setFirstEmpty"
     THEN Return(r, ok, NoIndex)
     ELSE IF ok
          THEN Return(r, FALSE, WORD_BITS * r.item + r.position)
          ELSE [r EXCEPT !.pc = "scan", !.i = @ + 1]

\* one atomic_compare_exchange_weak of the loop
Cas(t) ==
  /\ ~aborted /\ th[t].pc = "cas"
  /\ IF CasOk(bitarray[th[t].item], th[t].oldValue)
     THEN LET b == [bitarray EXCEPT ![th[t].item] =
                      NewValue(th[t].call.op, th[t].oldValue, th[t].position)]
          IN /\ bitarray' = b
             /\ th' = [u \in Threads |->
                         IF u = t THEN AfterCas(Shrink(t, b)) ELSE Shrink(u, b)]
     ELSE /\ th' = [th EXCEPT ![t] =
                      [@ EXCEPT !.oldValue = bitarray[th[t].item], !.fails = @ + 1]]
          /\ bitarray' = bitarray
  /\ UNCHANGED <<str, objs, heap, bitCount, strategy, last, nops, fills, iter, visited, aborted, oob>>

NextAtomic ==
  \E t \in Threads :
    \/ \E index \in ProbeAtomic(bitCount) : StartBitOp(t, "tryToSet", index)
    \/ \E index \in ProbeAtomic(bitCount) : StartBitOp(t, "unset", index)
    \/ \E startingAt \in ProbeAtomic(bitCount) : StartSetFirstEmpty(t, startingAt)
    \/ Scan(t)
    \/ ScanOutside(t)
    \/ Load(t)
    \/ Cas(t)

SpecAtomic == InitAtomic /\ [][NextAtomic]_vars

\* all threads call on one word: a bitmap of one full word
InitCas == InitAtomic /\ bitCount = WORD_BITS

\* The compare-exchange loops of atomicSet and atomicUnset alone, with the
\* failures atomic_compare_exchange_weak is allowed when the word does hold
\* the expected value: it returns false and leaves oldValue, a copy of the
\* word, as it is. (In SpecAtomic such a failure is a step that changes
\* nothing but this count, and is left out.) A run has at most one of them,
\* which is enough to tell the two kinds of failure apart.
CasSpurious(t) ==
  /\ ~aborted /\ th[t].pc = "cas"
  /\ bitarray[th[t].item] = th[t].oldValue
  /\ \A u \in Threads : th[u].spurious = 0
  /\ th' = [th EXCEPT ![t] = [@ EXCEPT !.spurious = @ + 1]]
  /\ UNCHANGED <<str, objs, heap, bitCount, bitarray, strategy, last, nops, fills, iter, visited, aborted, oob>>

NextCas ==
  \E t \in Threads :
    \/ \E index \in ProbeAtomic(bitCount) : StartBitOp(t, "tryToSet", index)
    \/ \E index \in ProbeAtomic(bitCount) : StartBitOp(t, "unset", index)
    \/ Cas(t)
    \/ CasSpurious(t)

\* every thread keeps running, and a compare-exchange that keeps finding the
\* expected value in the word does not fail forever
SpecCas ==
  /\ InitCas /\ [][NextCas]_vars
  /\ \A t \in Threads : WF_vars(Cas(t))

----------------------------------------------------------------------------
\* Properties

MinOf(S) == CHOOSE x \in S : \A y \in S : x <= y

\* the threads that made the call op(arg)
Callers(op, arg) == {t \in Threads : th[t].call = [op |-> op, arg |-> arg]}

\* C1: under the atomic strategy, when two or more threads call tryToSet(i) on
\* a bit that was clear, no thread unsets it and no other call sets it, then
\* once these calls have returned exactly one of them returned true.
C1_SingleOwnerSet ==
  \A i \in ProbeAtomic(bitCount) :
    LET S == Callers("tryToSet", i)
    IN (/\ Cardinality(S) >= 2
        /\ \A t \in S : th[t].pc = "done"
        /\ ~isSet(last.pre, i)
        /\ \A t \in Threads \ S :
             th[t].call.op \in {"none", "tryToSet", "unset"} /\ th[t].call.arg # i)
       => Cardinality({t \in S : th[t].retB}) = 1

\* two calls of tryToSet on the same clear bit have returned, and one of them
\* had to repeat its compare-exchange
C1_Witness ==
  \E i \in ProbeAtomic(bitCount) :
    /\ Cardinality(Callers("tryToSet", i)) >= 2
    /\ \A t \in Callers("tryToSet", i) : th[t].pc = "done"
    /\ ~isSet(last.pre, i)
    /\ \E t \in Callers("tryToSet", i) : th[t].fails > 0 /\ ~th[t].retB

\* C2: unset(i) returns true if and only if bit i was set immediately before
\* the call, under either strategy.
C2_UnsetReturnsWasSet ==
  last.op = "unset" => (last.retB <=> isSet(last.pre, last.arg))

\* C3: in sequential use tryToSet(i) returns true iff bit i was clear before
\* the call; after tryToSet(i) isSet(i) is true, after unset(i) it is false.
C3_SetUnsetInverse ==
  /\ last.op = "tryToSet" =>
       /\ last.retB <=> ~isSet(last.pre, last.arg)
       /\ isSet(bitarray, last.arg)
  /\ last.op = "unset" => ~isSet(bitarray, last.arg)

\* a second or later call: tryToSet on a bit already set returned false
C3_Witness ==
  /\ last.op = "tryToSet" /\ nops >= 2
  /\ isSet(last.pre, last.arg) /\ ~last.retB

\* the calls made so far are tryToSet/unset calls on pairwise different bits of
\* one word, and all have returned
DistinctBitOps ==
  /\ \A t \in Threads : th[t].pc \in {"idle", "done"}
  /\ \A t \in Threads : th[t].call.op \in {"none", "tryToSet", "unset"}
  /\ \A t, u \in Threads :
       (t # u /\ th[t].pc = "done" /\ th[u].pc = "done") =>
         /\ th[t].call.arg # th[u].call.arg
         /\ ItemOf(th[t].call.arg) = ItemOf(th[u].call.arg)

\* C4: under the atomic strategy, once concurrent tryToSet/unset calls on
\* different bits of one word have returned, every bit a tryToSet targeted is
\* set, every bit an unset targeted is clear, and every other bit is as it was.
C4_NoLostUpdate ==
  DistinctBitOps =>
    \A j \in 0 .. (WORD_BITS * AllocWords(bitCount) - 1) :
      isSet(bitarray, j) <=>
        IF Callers("tryToSet", j) # {} THEN TRUE
        ELSE IF Callers("unset", j) # {} THEN FALSE
        ELSE isSet(last.pre, j)

\* two such calls have returned, both changed their bit, and one of them had
\* to repeat its compare-exchange because the other changed the word
C4_Witness ==
  /\ DistinctBitOps
  /\ \E t, u \in Threads :
       /\ t # u /\ th[t].pc = "done" /\ th[u].pc = "done"
       /\ th[t].call.op = "tryToSet" /\ th[u].call.op = "unset"
       /\ th[t].fails > 0
       /\ isSet(last.pre, th[u].call.arg) /\ ~isSet(last.pre, th[t].call.arg)

\* C5: under the atomic strategy, with no unset in between, two setFirstEmpty
\* calls that both return a value return different indices.
C5_DistinctIndices ==
  (\A t \in Threads : th[t].call.op # "unset") =>
    \A t, u \in Threads :
      (/\ t # u
       /\ th[t].pc = "done" /\ th[t].call.op = "setFirstEmpty"
       /\ th[u].pc = "done" /\ th[u].call.op = "setFirstEmpty")
      => th[t].retN # th[u].retN

\* C6: sequential repeated calls of setFirstEmpty(0) on an all-clear bitmap of
\* n bits return 0, 1, ..., n - 1 in this order, and the call after them
\* aborts.
C6_FillThenAbort ==
  (fills >= 1 /\ last.op = "setFirstEmpty") =>
    IF fills <= bitCount
    THEN ~aborted /\ last.retN = fills - 1
    ELSE aborted

\* C7: in sequential use, when some bit at or after startingAt is clear,
\* setFirstEmpty(startingAt) returns the smallest such index, and that bit is
\* set after the call.
C7_FirstEmptyAtOrAfter ==
  (last.op = "setFirstEmpty" /\ ClearFrom(last.pre, bitCount, last.arg) # {}) =>
    LET j == MinOf(ClearFrom(last.pre, bitCount, last.arg))
    IN /\ ~aborted
       /\ last.retN = j
       /\ isSet(bitarray, j)

\* startingAt was not word-aligned, a lower bit was clear, and the bit claimed
\* lies in a later word
C7_Witness ==
  /\ last.op = "setFirstEmpty"
  /\ PositionOf(last.arg) # 0
  /\ \E j \in 0 .. (last.arg - 1) : ~isSet(last.pre, j)
  /\ last.retN # NoIndex /\ last.retN < bitCount
  /\ ItemOf(last.retN) > ItemOf(last.arg)
  /\ PositionOf(last.retN) < PositionOf(last.arg)

\* C8: a setFirstEmpty call aborts only if no bit at or after its startingAt
\* stayed clear throughout the call.
C8_AbortOnlyWhenExhausted ==
  \A t \in Threads : th[t].pc = "aborted" => th[t].free = {}

\* C9: lowestSetBitAt(startingAt) returns the smallest index at or after
\* startingAt and below bitCount whose bit is set, or bitCount when there is
\* none, and changes no bit.
C9_LowestSetBit ==
  last.op = "lowestSetBitAt" =>
    LET S == {j \in SetBits(last.pre, bitCount) : j >= last.arg}
    IN /\ last.retN = IF S = {} THEN bitCount ELSE MinOf(S)
       /\ bitarray = last.pre

\* startingAt was not word-aligned, a bit below it was set, and the bit found
\* lies in a later word
C9_Witness ==
  /\ last.op = "lowestSetBitAt"
  /\ PositionOf(last.arg) # 0
  /\ \E j \in 0 .. (last.arg - 1) : isSet(bitarray, j)
  /\ last.retN < bitCount
  /\ ItemOf(last.retN) > ItemOf(last.arg)

\* C10: a traversal from begin() by ++ visits set bits only, in strictly
\* ascending order, skipping none, and on reaching end() has visited exactly
\* the indices below bitCount whose bit is set.
C10_IterationVisitsSetBits ==
  iter.active =>
    LET S == SetBits(bitarray, bitCount)
        V == {visited[k] : k \in 1 .. Len(visited)}
    IN /\ V \subseteq S
       /\ \A k \in 1 .. (Len(visited) - 1) : visited[k] < visited[k + 1]
       /\ iter.i # IterEnd(bitCount) =>
            /\ Len(visited) > 0 /\ visited[Len(visited)] = iter.i
            /\ V = {j \in S : j <= iter.i}
       /\ iter.i = IterEnd(bitCount) => V = S

\* a traversal reached end() after visiting several bits, the last bit of the
\* bitmap among them, in a bitmap that also has clear bits
C10_Witness ==
  /\ iter.active /\ iter.i = IterEnd(bitCount)
  /\ Len(visited) >= 2
  /\ visited[Len(visited)] = bitCount - 1
  /\ Cardinality(SetBits(bitarray, bitCount)) < bitCount

\* the set bits of the array at positions from bitCount on: the padding
PaddingBits(b, n) == {j \in n .. (WORD_BITS * AllocWords(n) - 1) : isSet(b, j)}

\* C11: a bitmap constructed from a string s of '0' and '1' has bitCount
\* Len(s), has bit i set exactly where s[i] is '1', and to_string() with the
\* default limit gives back exactly s.
C11_StringRoundTrip ==
  nops = 0 =>
    /\ bitCount = Len(str)
    /\ \A i \in 0 .. (bitCount - 1) : isSet(bitarray, i) <=> str[i + 1] = "1"
    /\ (last.op = "to_string" /\ last.arg = 0 - 1) => last.retS = str

\* to_string() returned for a bitmap built from a string of two words, with a
\* '0' first and a '1' in the second word
C11_Witness ==
  /\ nops = 0 /\ last.op = "to_string" /\ last.arg = 0 - 1
  /\ Len(str) = 65 /\ str[1] = "0" /\ str[65] = "1"
  /\ Len(last.retS) = 65

\* C12: while no padding bit is set, as in a bitmap changed by tryToSet and
\* unset below bitCount only, inUseCount() is the number of indices below
\* bitCount whose bit is set.
C12_InUseCountCountsSetBits ==
  (last.op = "inUseCount" /\ PaddingBits(bitarray, bitCount) = {}) =>
    last.retN = Cardinality(SetBits(bitarray, bitCount))

\* inUseCount() returned after two tryToSet/unset calls on a bitmap of two
\* words that has set bits in both words and clear bits
C12_Witness ==
  /\ last.op = "inUseCount" /\ nops = 2
  /\ bitCount = 65 /\ PaddingBits(bitarray, bitCount) = {}
  /\ isSet(bitarray, 64) /\ isSet(bitarray, 0)
  /\ last.retN = 2

\* C13: after clear() every word of the array is 0, padding included: no bit
\* below bitCount is set, inUseCount() is 0 and bitCount is as before; and a
\* bitmap freshly constructed from a bit count is in that state.
C13_ClearZeroesEveryWord ==
  (last.op = "clear" \/ (last.op = "none" /\ str = << >>)) =>
    /\ DOMAIN bitarray = 0 .. (AllocWords(bitCount) - 1)
    /\ \A i \in DOMAIN bitarray : bitarray[i] = {}
    /\ SetBits(bitarray, bitCount) = {}
    /\ inUseCount(bitarray, bitCount) = 0
    /\ bitCount = last.n

\* clear() returned on a bitmap that had logical bits and a padding bit set
C13_Witness ==
  /\ last.op = "clear"
  /\ PaddingBits(last.pre, bitCount) # {}
  /\ SetBits(last.pre, bitCount) # {}
  /\ bitarray # last.pre

\* the live objects whose _bitarray is array a
Owners(a) == {o \in Objs : objs[o].state = "live" /\ objs[o].bitarray = a}

\* C14: every array is freed at most once, is unfreed exactly while one live
\* object owns it (so it is freed exactly once when all objects are
\* destroyed), and a move construction hands the array, with _bitCount and
\* the words unchanged, to the new object and leaves the moved-from object
\* with no array.
C14_ArrayFreedOnce ==
  /\ [](\A a \in 1 .. Len(heap) :
          /\ heap[a].frees <= 1
          /\ heap[a].frees = 0 <=> Cardinality(Owners(a)) = 1
          /\ heap[a].frees = 1 => Owners(a) = {})
  /\ [][\A o \in Objs :
          (objs[o].state = "unborn" /\ objs'[o].state = "live" /\ objs'[o].by = "move") =>
            \E rhs \in Objs \ {o} :
              /\ objs[rhs].state = "live"
              /\ objs'[o].bitCount = objs[rhs].bitCount
              /\ objs'[o].bitarray = objs[rhs].bitarray
              /\ objs'[rhs].bitarray = NullPtr
              /\ objs'[rhs].bitCount = objs[rhs].bitCount
              /\ heap' = heap]_vars

\* an array was constructed from a string, moved to a second object and from
\* there to a third, and all three objects were destroyed: it was freed once
C14_Witness ==
  /\ \A o \in Objs : objs[o].state = "destroyed"
  /\ Cardinality({o \in Objs : objs[o].by = "move"}) = 2
  /\ Len(heap) = 1 /\ heap[1].frees = 1
  /\ heap[1].words = BitmapOfString("relaxed", <<"0", "1">>)

\* C15: when the bit setFirstEmpty selected, at position p of word w, turns
\* out to be taken (setAt reported failure), the scan stays in word w while w
\* has a clear bit above p. A thread is in that case right after the failed
\* call: it is scanning again, the word it loaded had the bit set, and i is
\* where the failed turn left it.
C15_RetryInSameWord ==
  \A t \in Threads :
    (/\ th[t].call.op = "setFirstEmpty" /\ th[t].pc = "scan"
     /\ th[t].position \in th[t].oldValue
     /\ {p \in Complement(bitarray[th[t].item]) : p > th[t].position} # {})
    => th[t].i = th[t].item

\* C16: setFirstEmpty returns indices below bitCount only, and the padding
\* bits, at positions from bitCount on, stay clear.
C16_PaddingStaysClear ==
  /\ PaddingBits(bitarray, bitCount) = {}
  /\ (last.op = "setFirstEmpty" /\ ~aborted) => last.retN < bitCount

\* C17: no call reads or writes a word outside the array.
C17_AccessInsideArray == ~oob

\* the calls of other threads that returned after changing the word thread
\* t's call is on: a tryToSet that found the bit clear, an unset that found
\* it set (and so returned false)
Changers(t) ==
  {u \in Threads \ {t} :
     /\ th[u].pc = "done"
     /\ ItemOf(th[u].call.arg) = ItemOf(th[t].call.arg)
     /\ \/ th[u].call.op = "tryToSet" /\ th[u].retB
        \/ th[u].call.op = "unset" /\ ~th[u].retB}

\* every call that entered its compare-exchange loop returns: from some point
\* on no thread is in the loop (a thread makes one call)
CasLoopReturns == <>[](\A t \in Threads : th[t].pc # "cas")

\* C18, as stated: every call returns, and every failed compare-exchange of a
\* call, whatever made it fail, is matched by a compare-exchange of another
\* call that succeeded and changed the word.
C18_EveryFailureAttributable ==
  /\ CasLoopReturns
  /\ [](\A t \in Threads :
          th[t].fails + th[t].spurious <= Cardinality(Changers(t)))

\* C18, amended: every call returns, given that its compare-exchange does not
\* keep failing while the word holds the expected value; and every
\* compare-exchange of a call that failed because the word differed from the
\* expected value is matched by a compare-exchange of another call that
\* succeeded and changed the word.
C18_CasLoopTerminates ==
  /\ CasLoopReturns
  /\ [](\A t \in Threads : th[t].fails <= Cardinality(Changers(t)))

\* all calls returned, one of them after a compare-exchange that failed
\* because another call had changed the word, and after a spurious failure
C18_Witness ==
  /\ \A t \in Threads : th[t].pc = "done"
  /\ \E t \in Threads :
       /\ th[t].fails >= 1 /\ th[t].spurious >= 1
       /\ Changers(t) # {}

\* every bit of the array, padding included, other than bit j is as it was
\* before the call
OthersUnchanged(j) ==
  /\ DOMAIN bitarray = DOMAIN last.pre
  /\ \A k \in 0 .. (WORD_BITS * AllocWords(bitCount) - 1) :
       k # j => (isSet(bitarray, k) <=> isSet(last.pre, k))

\* C19: tryToSet(i) and unset(i) change no bit other than bit i; a
\* setFirstEmpty that returns j changes no bit of the array other than bit j;
\* isSet, lowestSetBitAt, inUseCount, to_string, begin() and ++ change no
\* bit; and no call changes bitCount.
C19_Frame ==
  /\ bitCount = last.n
  /\ last.op \in {"tryToSet", "unset"} => OthersUnchanged(last.arg)
  /\ (last.op = "setFirstEmpty" /\ ~aborted) => OthersUnchanged(last.retN)
  /\ last.op \in {"isSet", "lowestSetBitAt", "inUseCount", "to_string", "begin", "++"} =>
       bitarray = last.pre

\* setFirstEmpty returned a bit of the second word of a bitmap that had bits
\* set in the first word, and the array changed
C19_Witness ==
  /\ last.op = "setFirstEmpty" /\ last.retN = 64 /\ bitCount = 65
  /\ bitarray # last.pre
  /\ last.pre[0] = FullWord

\* C20: with no other thread at work the two strategies cannot be told
\* apart: from every array a sequence of calls reaches, under either
\* strategy, each tryToSet, unset and setFirstEmpty call returns the same
\* value and leaves the same array under the atomic strategy as under the
\* relaxed one. (Sequences of calls from the same initial array then agree
\* call by call.)
C20_StrategiesAgree ==
  /\ \A index \in Probe(bitCount) :
       /\ tryToSet("atomic", bitarray, index) = tryToSet("relaxed", bitarray, index)
       /\ unset("atomic", bitarray, index) = unset("relaxed", bitarray, index)
  /\ \A startingAt \in Probe(bitCount) :
       setFirstEmpty("atomic", bitarray, bitCount, startingAt)
         = setFirstEmpty("relaxed", bitarray, bitCount, startingAt)

\* a bitmap under the atomic strategy, after two calls the second of which
\* was a setFirstEmpty that claimed a bit, with set and clear bits among the
\* indices the calls are compared at
C20_Witness ==
  /\ strategy = "atomic" /\ nops = 2
  /\ last.op = "setFirstEmpty" /\ ~aborted /\ last.retN < bitCount
  /\ \E index \in Probe(bitCount) : tryToSet("relaxed", bitarray, index).ret
  /\ \E index \in Probe(bitCount) : ~unset("relaxed", bitarray, index).ret

====
